---- MODULE Spec2Model ----
(***************************************************************************)
(* Grading pipeline of classcrew1: grade_submissions (grader/workflows.py) *)
(* with the rubric reconciler (grader/rubric.py), the fairness reviewer    *)
(* (grader/reviewer.py), the primary grader (grader/grader.py), the        *)
(* materializer (utils/file_ops.py) and the anonymizer (utils/anonymize.py)*)
(*                                                                         *)
(* Numbers of points are kept in half points (Pts(n) is n points), so that *)
(* int(float(x)) is a real truncation.  Confidences are in hundredths.     *)
(***************************************************************************)
EXTENDS Integers, Sequences, FiniteSets, TLC

VARIABLES
    scope,                \* "batch", "pipeline" or "grader": the inputs the run draws from
    assignment_id_ok,     \* str(assignment_id).strip().isdigit()
    rubric_items,         \* canvas.get_rubric(assignment_id)
    submissions,          \* external_submissions / canvas.get_submissions
    grade_missing_as_zero,
    override_map,         \* user_id -> override record, as a set of records
    has_progress,         \* stream_callback has a callable update_progress
    DEBUG_MODE,           \* reviewer.DEBUG_MODE
    pc,                   \* position of grade_submissions
    i,                    \* loop index (1-based) of the for loop
    anon_map,             \* generate_anonymized_mapping(real_ids)
    audit_calls,          \* calls of anonymize.audit_mapping_integrity made by the run
    all_results,
    extraction_failures,
    logs,
    progress,             \* the update_progress(completed, total) calls made
    csv_path,             \* "none" or "written"
    csv_rows,             \* the rows of the exported file, below its header
    outcome,              \* "running", "returned" or "raised" (the batch call)
    cur,                  \* locals of the current loop iteration
    rv                    \* locals of AIFairnessChecker.review and the remote file

vars == <<scope, audit_calls, csv_rows, assignment_id_ok, rubric_items, submissions, grade_missing_as_zero,
          override_map, has_progress, DEBUG_MODE, pc, i, anon_map, all_results,
          extraction_failures, logs, progress, csv_path, outcome, cur, rv>>

----------------------------------------------------------------------------
(* Bounds and program constants *)

MaxSubs == 2

ConfidenceThreshold == 70

DefaultConfidence == 50

NoneVal == -1

Pts(n) == 2 * n

\* int(float(x)) on a non-negative number kept in half points
IntFloat(x) == 2 * (x \div 2)

IsNumber(x) == x /= NoneVal

----------------------------------------------------------------------------
(* Sequence helpers *)

RECURSIVE SumPoints(_)
SumPoints(scores) ==
    IF scores = <<>> THEN 0 ELSE Head(scores).points + SumPoints(Tail(scores))

Range(s) == {s[k] : k \in DOMAIN s}

CriteriaOf(scores) == {scores[k].criterion : k \in DOMAIN scores}

Min(a, b) == IF a < b THEN a ELSE b

----------------------------------------------------------------------------
(* Rubric, score entries and grading results *)

Item(c, mp) == [criterion |-> c, max_points |-> mp]

\* the rubric of the specification's scenarios: Clarity/10, Completeness/10
RubricCC == <<Item("Clarity", Pts(10)), Item("Completeness", Pts(10))>>

\* a rubric that also scores Style, with a maximum of 5
RubricStyle == Append(RubricCC, Item("Style", Pts(5)))

\* an entry of "rubric_scores"; max_points = NoneVal when the entry has no such key
Score(c, p, r, mp) == [criterion |-> c, points |-> p, reason |-> r, max_points |-> mp]

\* a grading payload: a dict, with or without the "rubric_scores" key
Result(has, scores, fb) ==
    [kind |-> "dict", has_scores |-> has, rubric_scores |-> scores, overall_feedback |-> fb]

None == [kind |-> "none", has_scores |-> FALSE, rubric_scores |-> <<>>, overall_feedback |-> ""]

\* str.strip() on the feedback strings of the model
Strip(s) == IF s \in {"", " "} THEN "" ELSE IF s = " Good work. " THEN "Good work." ELSE s

NotAddressed == "This criterion was not addressed in the submission."

\* a pass that appends a zero entry for every item of the rubric, graded or not
AppendMissing_every_item(scores, items, graded_criteria) ==
    scores \o [k \in DOMAIN items |-> Score(items[k].criterion, 0, NotAddressed, NoneVal)]

RECURSIVE AppendMissing(_, _, _)
AppendMissing(scores, items, graded_criteria) ==
    IF items = <<>> THEN scores
    ELSE AppendMissing(
             IF Head(items).criterion \notin graded_criteria
             THEN Append(scores, Score(Head(items).criterion, 0, NotAddressed, NoneVal))
             ELSE scores,
             Tail(items), graded_criteria)

\* a reconciler that adds nothing
ensure_grading_completeness_unchanged(grading_result, items) == grading_result

\* rubric.ensure_grading_completeness
ensure_grading_completeness(grading_result, items) ==
    IF grading_result.kind = "none" \/ ~grading_result.has_scores
    THEN grading_result
    ELSE [grading_result EXCEPT
            !.rubric_scores = AppendMissing(@, items, CriteriaOf(@))]

\* the loop "item['points'] = int(float(item['points']))": does it raise?
CoerceRaises(grading_result) ==
    \E k \in DOMAIN grading_result.rubric_scores :
        ~IsNumber(grading_result.rubric_scores[k].points)

CoercePoints(grading_result) ==
    [grading_result EXCEPT
        !.rubric_scores = [k \in DOMAIN @ |-> [@[k] EXCEPT !.points = IntFloat(@)]]]

\* item.get("max_points", item["points"])
GetMaxPoints(item) == IF item.max_points = NoneVal THEN item.points ELSE item.max_points

\* the "points" expression of the rubric_scores comprehension
PresentedPoints(item) ==
    IF IntFloat(item.points) >= IntFloat(GetMaxPoints(item))
    THEN IntFloat(item.points)
    ELSE 0

PresentedScores(grading_result) ==
    [k \in DOMAIN grading_result.rubric_scores |->
        [grading_result.rubric_scores[k] EXCEPT
            !.points = PresentedPoints(grading_result.rubric_scores[k])]]

AiNote == "This was graded by AI and submitted after human review."

\* general_comment: the stripped feedback followed by the AI note
GeneralComment(grading_result) ==
    IF Strip(grading_result.overall_feedback) /= ""
    THEN <<Strip(grading_result.overall_feedback), AiNote>>
    ELSE <<AiNote>>

RubricLines(scores) ==
    [k \in DOMAIN scores |-> <<scores[k].criterion, scores[k].points, scores[k].reason>>]

----------------------------------------------------------------------------
(* Fairness reviewer: verdicts and extract_review_json *)

Verdict(f, r, g, c) == [fair |-> f, reason |-> r, revised_grade |-> g, confidence |-> c]

UnreadableReason == "Gemini returned unreadable review response."

ReviewErrorReason == "Error running Gemini review"

\* the model's reply: parsable says whether a JSON object is found and loads;
\* keys is the set of keys of that object
Reply(ok, ks, f, r, c, g) ==
    [parsable |-> ok, keys |-> ks, fair |-> f, reason |-> r, confidence |-> c,
     suggested_grading_result |-> g]

AllKeys == {"fair", "reason", "confidence", "suggested_grading_result"}

\* a parser that hands on the suggestion of the reply whatever the flag is
extract_review_json_keeps_suggestion(text) ==
    IF ~text.parsable
    THEN Verdict(TRUE, UnreadableReason, None, 0)
    ELSE LET fair == IF "fair" \in text.keys THEN text.fair ELSE TRUE
         IN  Verdict(fair,
                     IF ~fair /\ "reason" \in text.keys THEN text.reason ELSE "",
                     IF "suggested_grading_result" \in text.keys
                     THEN text.suggested_grading_result ELSE None,
                     IF "confidence" \in text.keys THEN text.confidence
                     ELSE DefaultConfidence)

\* reviewer.extract_review_json
extract_review_json(text) ==
    IF ~text.parsable
    THEN Verdict(TRUE, UnreadableReason, None, 0)
    ELSE LET fair == IF "fair" \in text.keys THEN text.fair ELSE TRUE
             reason == IF ~fair
                       THEN (IF "reason" \in text.keys THEN text.reason ELSE "")
                       ELSE ""
             revised_grade ==
                 IF ~fair
                 THEN (IF "suggested_grading_result" \in text.keys
                       THEN text.suggested_grading_result ELSE None)
                 ELSE None
             confidence == IF "confidence" \in text.keys
                           THEN text.confidence ELSE DefaultConfidence
         IN  Verdict(fair, reason, revised_grade, confidence)

\* the except branch of AIFairnessChecker.review
ReviewExceptVerdict == Verdict(TRUE, ReviewErrorReason, None, DefaultConfidence)

\* truth value of revised_grade in "if not fair and revised_grade and ..."
Truthy(grading_result) == grading_result.kind /= "none"

\* "if not fair and revised_grade and confidence >= 0.7"
ApplyRevision(verdict) ==
    ~verdict.fair /\ Truthy(verdict.revised_grade) /\ verdict.confidence >= ConfidenceThreshold

\* "elif not fair and confidence < 0.7"
LowConfidence(verdict) == ~verdict.fair /\ verdict.confidence < ConfidenceThreshold

----------------------------------------------------------------------------
(* Anonymization and submission status *)

RECURSIVE Digits(_)
Digits(n) == IF n < 10 THEN <<n>> ELSE Append(Digits(n \div 10), n % 10)

\* order of str(a) and str(b) as Python compares strings
StrLess(a, b) ==
    LET da == Digits(a)
        db == Digits(b)
        m  == Min(Len(da), Len(db))
    IN  \/ \E k \in 1..m : da[k] < db[k] /\ \A j \in 1..(k - 1) : da[j] = db[j]
        \/ Len(da) < Len(db) /\ \A j \in 1..m : da[j] = db[j]

\* a mapping that numbers the identifiers in the order given, without sorting
generate_anonymized_mapping_unsorted(user_ids) ==
    [uid \in Range(user_ids) |->
        CHOOSE k \in DOMAIN user_ids :
            user_ids[k] = uid /\ \A j \in DOMAIN user_ids : user_ids[j] = uid => j <= k]

\* anonymize.generate_anonymized_mapping: the label number of each identifier is
\* its position in sorted(user_ids); of equal identifiers the last position wins
generate_anonymized_mapping(user_ids) ==
    [uid \in Range(user_ids) |->
        Cardinality({k \in DOMAIN user_ids : user_ids[k] = uid \/ StrLess(user_ids[k], uid)})]

RECURSIVE zfill(_, _)
\* str.zfill: zeros in front up to the width, nothing cut
zfill(ds, width) == IF Len(ds) >= width THEN ds ELSE zfill(<<0>> \o ds, width)

\* the digits of the label "user" + str(n).zfill(3)
Label(n) == zfill(Digits(n), 3)

\* anon_map.get(str(user_id), "user???"); label 0 stands for "user???"
AnonId(mapping, user_id) == IF user_id \in DOMAIN mapping THEN mapping[user_id] ELSE 0

\* the status computed inline by grade_submissions
InlineStatus(sub) ==
    IF sub.missing THEN "Missing"
    ELSE IF sub.late THEN "Late"
    ELSE IF sub.attempt = NoneVal THEN "Missing"
    ELSE IF sub.attempt > 1 THEN "Resubmitted"
    ELSE "On Time"

\* file_ops.get_submission_status (canvas/utils.py holds the same function)
get_submission_status(sub) ==
    IF sub.attempt = NoneVal \/ sub.missing THEN "Missing"
    ELSE IF sub.late THEN "Late"
    ELSE IF sub.attempt > 1 THEN "Resubmitted"
    ELSE "On Time"

----------------------------------------------------------------------------
(* Submission materializer (utils/file_ops.py).  A file is described by what
   the environment does with it: whether the download left it on disk, whether
   it is a valid PDF, which converter succeeds on it, what text it holds. *)

File(ext, exists, valid, lo, d2p, dtext, layer, ocr, mergeable) ==
    [ext |-> ext, exists |-> exists, valid_pdf |-> valid, lo_ok |-> lo, d2p_ok |-> d2p,
     docx_text |-> dtext, text_layer |-> layer, ocr_text |-> ocr, mergeable |-> mergeable]

\* file_ops.convert_docx_to_pdf: LibreOffice first, docx2pdf second, else raise
convert_docx_to_pdf(f) ==
    IF f.lo_ok THEN "libreoffice"
    ELSE IF f.d2p_ok THEN "docx2pdf"
    ELSE "raise"

\* file_ops.extract_text_from_docx: "" when nothing is found or on error
extract_text_from_docx(f) == IF f.docx_text THEN <<"docx">> ELSE <<>>

\* the files put on pdfs_to_merge
ToMerge(f) ==
    \/ f.ext = "docx" /\ convert_docx_to_pdf(f) /= "raise"
    \/ f.ext = "pdf" /\ f.exists /\ f.valid_pdf

\* a loop that reads the text of every DOCX container, converted or not
DirectDocx_always(f) ==
    f.ext = "docx" /\ extract_text_from_docx(f) /= <<>>

\* the files whose text is taken directly from the DOCX container
DirectDocx(f) ==
    f.ext = "docx" /\ convert_docx_to_pdf(f) = "raise" /\ extract_text_from_docx(f) /= <<>>

\* an extraction that runs optical recognition whatever the text layer gave
extract_text_from_pdf_always_ocr(pdfs) ==
    (IF \E k \in DOMAIN pdfs : pdfs[k].text_layer THEN <<"direct">> ELSE <<>>)
        \o (IF \E k \in DOMAIN pdfs : pdfs[k].ocr_text THEN <<"ocr">> ELSE <<>>)

\* file_ops.extract_text_from_pdf on the merged document: the text layer first,
\* optical recognition only when the text layer gives nothing
extract_text_from_pdf(pdfs) ==
    IF \E k \in DOMAIN pdfs : pdfs[k].text_layer THEN <<"direct">>
    ELSE IF \E k \in DOMAIN pdfs : pdfs[k].ocr_text THEN <<"ocr">>
    ELSE <<>>

\* the reason appended to the skipped list for a file that gives nothing
SkipReason(f) ==
    IF f.ext = "docx" THEN "Both PDF conversion and direct text extraction failed"
    ELSE IF f.ext = "pdf" THEN "Invalid or missing PDF"
    ELSE "Unsupported extension"

\* the skipped list: position in file_paths and reason, in the order of the files
Skipped(file_paths) ==
    LET idx == SelectSeq([k \in DOMAIN file_paths |-> k],
                         LAMBDA k : ~ToMerge(file_paths[k]) /\ ~DirectDocx(file_paths[k]))
    IN  [j \in DOMAIN idx |-> <<idx[j], SkipReason(file_paths[idx[j]])>>]

RECURSIVE DocxTexts(_)
DocxTexts(files) ==
    IF files = <<>> THEN <<>>
    ELSE extract_text_from_docx(Head(files)) \o DocxTexts(Tail(files))

\* a materializer that renders the directly extracted text into a document at
\* output_path when there is nothing to merge
prepare_submission_for_grading_renders_text(file_paths) ==
    LET pdfs_to_merge == SelectSeq(file_paths, ToMerge)
        docx_files    == SelectSeq(file_paths, DirectDocx)
        pdf_text      == IF pdfs_to_merge /= <<>> THEN extract_text_from_pdf(pdfs_to_merge)
                         ELSE <<>>
    IN  [raises  |-> \E k \in DOMAIN pdfs_to_merge : ~pdfs_to_merge[k].mergeable,
         written |-> pdfs_to_merge /= <<>> \/ docx_files /= <<>>,
         text    |-> pdf_text \o DocxTexts(docx_files),
         skipped |-> Skipped(file_paths)]

\* a materializer that raises when it finds no text
prepare_submission_for_grading_strict(file_paths) ==
    LET pdfs_to_merge == SelectSeq(file_paths, ToMerge)
        docx_files    == SelectSeq(file_paths, DirectDocx)
        pdf_text      == IF pdfs_to_merge /= <<>> THEN extract_text_from_pdf(pdfs_to_merge)
                         ELSE <<>>
    IN  [raises  |-> \/ \E k \in DOMAIN pdfs_to_merge : ~pdfs_to_merge[k].mergeable
                     \/ pdf_text \o DocxTexts(docx_files) = <<>>,
         written |-> pdfs_to_merge /= <<>>,
         text    |-> pdf_text \o DocxTexts(docx_files),
         skipped |-> Skipped(file_paths)]

\* file_ops.prepare_submission_for_grading: does merge_pdfs raise, is a document
\* written at output_path, and the text returned
prepare_submission_for_grading(file_paths) ==
    LET pdfs_to_merge == SelectSeq(file_paths, ToMerge)
        docx_files    == SelectSeq(file_paths, DirectDocx)
        pdf_text      == IF pdfs_to_merge /= <<>> THEN extract_text_from_pdf(pdfs_to_merge)
                         ELSE <<>>
    IN  [raises  |-> \E k \in DOMAIN pdfs_to_merge : ~pdfs_to_merge[k].mergeable,
         written |-> pdfs_to_merge /= <<>>,
         text    |-> pdf_text \o DocxTexts(docx_files),
         skipped |-> Skipped(file_paths)]

----------------------------------------------------------------------------
(* The inputs of a run: files, submissions, replies of the two remote models *)

PdfText      == File("pdf", TRUE, TRUE, FALSE, FALSE, FALSE, TRUE, FALSE, TRUE)
PdfScan      == File("pdf", TRUE, TRUE, FALSE, FALSE, FALSE, FALSE, TRUE, TRUE)
PdfBlank     == File("pdf", TRUE, TRUE, FALSE, FALSE, FALSE, FALSE, FALSE, TRUE)
PdfMixed     == File("pdf", TRUE, TRUE, FALSE, FALSE, FALSE, TRUE, TRUE, TRUE)
PdfEncrypted == File("pdf", TRUE, FALSE, FALSE, FALSE, FALSE, TRUE, FALSE, TRUE)
PdfMissing   == File("pdf", FALSE, FALSE, FALSE, FALSE, FALSE, FALSE, FALSE, TRUE)
PdfUnmergeable == File("pdf", TRUE, TRUE, FALSE, FALSE, FALSE, TRUE, FALSE, FALSE)
PdfBlankUnmergeable == File("pdf", TRUE, TRUE, FALSE, FALSE, FALSE, FALSE, FALSE, FALSE)
DocxLibre    == File("docx", TRUE, FALSE, TRUE, FALSE, TRUE, TRUE, FALSE, TRUE)
DocxSecond   == File("docx", TRUE, FALSE, FALSE, TRUE, TRUE, TRUE, FALSE, TRUE)
DocxTextOnly == File("docx", TRUE, FALSE, FALSE, FALSE, TRUE, FALSE, FALSE, TRUE)
DocxDead     == File("docx", TRUE, FALSE, FALSE, FALSE, FALSE, FALSE, FALSE, TRUE)
OtherFile    == File("txt", TRUE, FALSE, FALSE, FALSE, FALSE, FALSE, FALSE, TRUE)

AttachmentLists ==
    {<<>>, <<PdfText>>, <<PdfScan>>, <<PdfBlank>>, <<PdfEncrypted>>, <<PdfMissing>>,
     <<PdfUnmergeable>>, <<PdfBlankUnmergeable>>,
     <<DocxLibre>>, <<DocxSecond>>, <<DocxTextOnly>>, <<DocxDead>>,
     <<OtherFile>>, <<PdfEncrypted, PdfScan>>, <<DocxTextOnly, PdfText>>,
     <<OtherFile, DocxDead>>, <<DocxSecond, DocxTextOnly, DocxDead>>,
     <<PdfMixed>>, <<PdfScan, PdfText>>}

Submission(uid, attempt, late, missing, atts) ==
    [user_id |-> uid, attempt |-> attempt, late |-> late, missing |-> missing,
     attachments |-> atts]

\* the identifiers of the submitters, in the order Canvas returns them
UserIds == <<30, 7, 12, 5>>

\* the submissions a run may hold for one submitter
SubmissionsFor(sc, uid) ==
    IF sc = "batch"
    THEN {Submission(uid, 1, FALSE, FALSE, <<PdfText>>),
          Submission(uid, 1, FALSE, FALSE, <<PdfBlank>>),
          Submission(uid, 1, FALSE, FALSE, <<PdfUnmergeable>>),
          Submission(uid, 1, FALSE, FALSE, <<DocxTextOnly>>),
          Submission(uid, 1, FALSE, FALSE, <<>>),
          Submission(uid, NoneVal, FALSE, TRUE, <<>>)}
    ELSE IF sc = "grader"
    THEN {Submission(uid, 1, FALSE, FALSE, <<PdfText>>),
          Submission(uid, 1, FALSE, FALSE, <<DocxTextOnly>>),
          Submission(uid, NoneVal, FALSE, TRUE, <<>>)}
    ELSE {Submission(uid, f[1], f[2], f[3], <<PdfText>>) :
              f \in {NoneVal, 1, 2} \X BOOLEAN \X BOOLEAN}
         \cup {Submission(uid, 1, FALSE, FALSE, a) : a \in AttachmentLists}

\* what the primary grader can return: a payload that passed
\* _validate_grading_json, or the sentinel of _extract_json
Sentinel == Result(TRUE, <<>>, "OpenAI failed to return valid grading JSON.")

GradeExample ==
    Result(TRUE, <<Score("Clarity", Pts(10), "clear", NoneVal),
                   Score("Completeness", Pts(4), "partial", NoneVal)>>, "Good work.")

GradeOverMax ==
    Result(TRUE, <<Score("Clarity", Pts(15), "great", NoneVal)>>, " Good work. ")

GradeExtraKey ==
    Result(TRUE, <<Score("Clarity", Pts(4) + 1, "half", Pts(10)),
                   Score("Style", Pts(3), "extra", NoneVal)>>, " ")

GradeDuplicate ==
    Result(TRUE, <<Score("Clarity", Pts(10), "clear", NoneVal),
                   Score("Clarity", Pts(4), "again", NoneVal),
                   Score("Completeness", Pts(10), "full", Pts(10))>>, "Good work.")

GradeNotNumeric ==
    Result(TRUE, <<Score("Clarity", NoneVal, "n/a", NoneVal)>>, "")

GraderReplies(sc) ==
    IF sc = "batch"
    THEN {GradeExample, Sentinel, GradeNotNumeric}
    ELSE {GradeExample, Sentinel, GradeOverMax, GradeExtraKey, GradeDuplicate,
          GradeNotNumeric}

\* the sentinels of grade and _grade_with_vision for an empty response, and of
\* grade for an error of the remote call
TextEmpty == Result(TRUE, <<>>, "OpenAI returned an empty response.")

TextError == Result(TRUE, <<>>, "OpenAI error")

VisionEmpty == Result(TRUE, <<>>, "Vision grading returned empty response.")

\* a payload without the rubric_scores key
GradeNoScores == Result(FALSE, <<>>, "Good work.")

\* what one attempt of a path meets: an error while rendering the pages, an
\* error of the remote call, an empty response, or a text that may hold
\* braces, may be JSON between them, and then holds data
Outcome(kind, braces, json_ok, data) ==
    [kind |-> kind, braces |-> braces, json_ok |-> json_ok, data |-> data]

RenderError == Outcome("render error", FALSE, FALSE, None)

ApiError == Outcome("api error", FALSE, FALSE, None)

EmptyResponse == Outcome("empty", FALSE, FALSE, None)

NoBraces == Outcome("text", FALSE, FALSE, None)

BadJson == Outcome("text", TRUE, FALSE, None)

Response(data) == Outcome("text", TRUE, TRUE, data)

\* grader.py lines 139-153: a dict with a rubric_scores list of entries with
\* criterion, points and reason, and an overall_feedback string
validate_grading_json(data) == data.kind = "dict" /\ data.has_scores

\* grader.py lines 117-137: the parsed data when valid, else the sentinel
extract_json(raw) ==
    IF raw.braces /\ raw.json_ok /\ validate_grading_json(raw.data)
    THEN raw.data
    ELSE Sentinel

\* what the two paths of one call of grade meet
Run(vision, text) == [vision |-> vision, text |-> text]

\* grader.py lines 30-71: the text-only path, which catches every exception
grade_text(text) ==
    IF text.kind = "api error" THEN TextError
    ELSE IF text.kind = "empty" THEN TextEmpty
    ELSE extract_json(text)

\* grader.py lines 155-262: _grade_with_vision returns or raises
grade_with_vision(vision) ==
    IF vision.kind \in {"render error", "api error"} THEN [raises |-> TRUE, result |-> None]
    ELSE IF vision.kind = "empty" THEN [raises |-> FALSE, result |-> VisionEmpty]
    ELSE [raises |-> FALSE, result |-> extract_json(vision)]

\* grader.py lines 21-71: OpenAIGrader.grade
grade(run, pdf_exists) ==
    IF pdf_exists /\ ~grade_with_vision(run.vision).raises
    THEN [path |-> "vision", result |-> grade_with_vision(run.vision).result]
    ELSE [path |-> "text", result |-> grade_text(run.text)]

\* the response that makes _extract_json return this result
RawOf(result) == IF result = Sentinel THEN NoBraces ELSE Response(result)

\* the outcomes the two paths of grade can meet in a run
GraderRuns(sc) ==
    IF sc = "grader"
    THEN {Run(v, t) :
              v \in {RenderError, ApiError, EmptyResponse, NoBraces, BadJson,
                     Response(GradeExample), Response(GradeNoScores)},
              t \in {ApiError, EmptyResponse, NoBraces, BadJson,
                     Response(GradeOverMax), Response(GradeNoScores)}}
    ELSE {Run(RawOf(r), RawOf(r)) : r \in GraderReplies(sc)}

\* what the reviewer's model can answer
AltExample ==
    Result(TRUE, <<Score("Clarity", Pts(10), "clear", NoneVal),
                   Score("Completeness", Pts(10), "complete", NoneVal)>>, "Revised.")

AltPartial ==
    Result(TRUE, <<Score("Completeness", Pts(4), "partial", Pts(10)),
                   Score("Depth", Pts(12), "extra", NoneVal)>>, " Revised. ")

AltNoScores == Result(FALSE, <<>>, "Revised.")

AltNotNumeric ==
    Result(TRUE, <<Score("Clarity", NoneVal, "n/a", NoneVal)>>, "Revised.")

Unparsable == Reply(FALSE, {}, TRUE, "", 0, None)

ReviewerReplies(sc) ==
    IF sc \in {"batch", "grader"}
    THEN {Unparsable,
          Reply(TRUE, AllKeys, TRUE, "", 90, None),
          Reply(TRUE, AllKeys, FALSE, "too harsh", 90, AltExample),
          Reply(TRUE, AllKeys, FALSE, "too harsh", 30, AltExample)}
    ELSE {Unparsable,
          Reply(TRUE, {}, TRUE, "", 0, None),
          Reply(TRUE, {"fair"}, FALSE, "", 0, None),
          Reply(TRUE, AllKeys, TRUE, "", 90, None),
          Reply(TRUE, AllKeys, TRUE, "fine", 90, AltExample)}
         \cup {Reply(TRUE, AllKeys, FALSE, "too harsh", c, AltExample) :
                   c \in {30, 69, 70, 90}}
         \cup {Reply(TRUE, AllKeys, FALSE, "too harsh", c, g) :
                   c \in {69, 70}, g \in {None, AltPartial}}
         \cup {Reply(TRUE, AllKeys, FALSE, "too harsh", 90, g) :
                   g \in {AltNoScores, AltNotNumeric}}

Override(score, fb, has, scores) ==
    [score |-> score, feedback |-> fb, has_rubric_scores |-> has, rubric_scores |-> scores]

NoOverrides == <<>>

OverrideMaps(uid) ==
    {NoOverrides, uid :> Override(Pts(7), "Instructor comment", FALSE, <<>>)}

----------------------------------------------------------------------------
(* Initial states: the arguments of grade_submissions and what Canvas holds *)

NoCur ==
    [user_id |-> 0, anon_id |-> 0, status |-> "", file_paths |-> <<>>,
     merged_exists |-> FALSE, content_text |-> <<>>,
     run |-> Run(NoBraces, NoBraces), path |-> "none", reply |-> None, primary |-> None,
     grading_result |-> None, verdict |-> Verdict(TRUE, "", None, 0), exc |-> "none",
     stages |-> <<>>, skipped |-> <<>>]

NoRv ==
    [entered |-> FALSE, uploaded_file |-> FALSE, remote |-> "none", text |-> Unparsable,
     has_text |-> FALSE, ret |-> Verdict(TRUE, "", None, 0), failure |-> "none",
     delete_failed |-> FALSE, exit |-> "none", delete_calls |-> 0]

RECURSIVE Batches(_, _)
\* the lists of n submissions, the k-th being of the k-th identifier
Batches(sc, n) ==
    IF n = 0 THEN {<<>>}
    ELSE {Append(b, s) : b \in Batches(sc, n - 1), s \in SubmissionsFor(sc, UserIds[n])}

InitCommon ==
    /\ pc = "start"
    /\ i = 1
    /\ anon_map = <<>>
    /\ audit_calls = 0
    /\ all_results = <<>>
    /\ extraction_failures = <<>>
    /\ logs = <<>>
    /\ progress = <<>>
    /\ csv_path = "none"
    /\ csv_rows = <<>>
    /\ outcome = "running"
    /\ cur = NoCur
    /\ rv = NoRv

\* a batch of up to MaxSubs submitters
InitBatch ==
    /\ scope = "batch"
    /\ \E n \in 0..Min(MaxSubs, Len(UserIds)) : submissions \in Batches("batch", n)
    /\ \/ assignment_id_ok = TRUE /\ rubric_items = RubricCC
       \/ assignment_id_ok = FALSE /\ rubric_items = RubricCC /\ Len(submissions) = 1
       \/ assignment_id_ok = TRUE /\ rubric_items = <<>> /\ Len(submissions) = 1
    /\ grade_missing_as_zero \in BOOLEAN
    /\ override_map = NoOverrides
    /\ has_progress \in BOOLEAN
    /\ DEBUG_MODE \in BOOLEAN
    /\ InitCommon

\* one submitter, with every outcome the two paths of the grader can meet
InitGrader ==
    /\ scope = "grader"
    /\ submissions \in Batches("grader", 1)
    /\ assignment_id_ok = TRUE
    /\ rubric_items \in {RubricCC, RubricStyle}
    /\ grade_missing_as_zero \in BOOLEAN
    /\ override_map = NoOverrides
    /\ has_progress \in BOOLEAN
    /\ DEBUG_MODE \in BOOLEAN
    /\ InitCommon

\* one submitter, with every input the pipeline distinguishes
InitPipeline ==
    /\ scope = "pipeline"
    /\ submissions \in Batches("pipeline", 1)
    /\ assignment_id_ok = TRUE
    /\ rubric_items \in {RubricCC, RubricStyle}
    /\ grade_missing_as_zero \in BOOLEAN
    /\ override_map \in OverrideMaps(UserIds[1])
    /\ has_progress \in BOOLEAN
    /\ DEBUG_MODE \in BOOLEAN
    /\ InitCommon

----------------------------------------------------------------------------
(* grade_submissions, step by step *)

total == Len(submissions)

\* the stage functions called for the current submitter, in the order of the calls
Called(locals, stage) == [locals EXCEPT !.stages = Append(@, stage)]

Log(tag, anon) == Append(logs, <<tag, anon>>)

Failure(reason) ==
    [user_id |-> cur.user_id, anon_id |-> cur.anon_id, status |-> cur.status,
     reason |-> reason]

\* an except clause that logs and goes on without recording the failure
Handler_unrecorded(e, lg, locals) ==
    /\ cur' = [locals EXCEPT !.exc = e]
    /\ logs' = Append(lg, <<"error grading", cur.anon_id>>)
    /\ extraction_failures' = extraction_failures
    /\ i' = i + 1
    /\ pc' = "loop"

\* "except Exception as e" of the loop body: log, record the failure, next submitter
Handler(e, lg, locals) ==
    /\ cur' = [locals EXCEPT !.exc = e]
    /\ logs' = Append(lg, <<"error grading", cur.anon_id>>)
    /\ extraction_failures' = Append(extraction_failures, Failure(e))
    /\ i' = i + 1
    /\ pc' = "loop"

\* a start that builds the mapping and enters the loop without checking the
\* assignment identifier or the rubric
Start_unchecked ==
    /\ pc = "start"
    /\ UNCHANGED <<scope, audit_calls, csv_rows, assignment_id_ok, rubric_items, submissions, grade_missing_as_zero,
                   override_map, has_progress, DEBUG_MODE, i, all_results,
                   extraction_failures, csv_path, cur, rv>>
    /\ anon_map' = generate_anonymized_mapping(
                       [k \in DOMAIN submissions |-> submissions[k].user_id])
    /\ pc' = "loop"
    /\ UNCHANGED <<logs, progress, outcome>>

\* lines 31-68: the checks of the arguments, the rubric, the mapping
Start ==
    /\ pc = "start"
    /\ UNCHANGED <<scope, audit_calls, csv_rows, assignment_id_ok, rubric_items, submissions, grade_missing_as_zero,
                   override_map, has_progress, DEBUG_MODE, i, all_results,
                   extraction_failures, csv_path, cur, rv>>
    /\ IF ~assignment_id_ok
       THEN /\ logs' = Log("invalid assignment id", 0)
            /\ outcome' = "raised"
            /\ pc' = "done"
            /\ UNCHANGED <<anon_map, progress>>
       ELSE IF rubric_items = <<>>
       THEN /\ logs' = Log("no rubric", 0)
            /\ outcome' = "raised"
            /\ pc' = "done"
            /\ UNCHANGED <<anon_map, progress>>
       ELSE /\ anon_map' = generate_anonymized_mapping(
                               [k \in DOMAIN submissions |-> submissions[k].user_id])
            /\ UNCHANGED logs
            /\ IF has_progress
               THEN \/ /\ progress' = Append(progress, <<0, total>>)
                       /\ pc' = "loop"
                       /\ UNCHANGED outcome
                    \/ /\ outcome' = "raised"      \* update_progress raises
                       /\ pc' = "done"
                       /\ UNCHANGED progress
               ELSE /\ pc' = "loop"
                    /\ UNCHANGED <<progress, outcome>>

\* a zero result that carries no entry for the criteria of the rubric
ZeroResult_without_entries(sub, anon) ==
    [user_id |-> sub.user_id, anon_id |-> anon, score |-> 0, was_regraded |-> FALSE,
     review_reason |-> "Missing submission", feedback |-> <<"No submission received.">>,
     rubric_details |-> <<<<"No work submitted.", 0, "">>>>,
     rubric_scores |-> <<>>,
     submission_status |-> "Missing", original_score |-> NoneVal,
     original_feedback |-> ""]

ZeroResult(sub, anon) ==
    [user_id |-> sub.user_id, anon_id |-> anon, score |-> 0, was_regraded |-> FALSE,
     review_reason |-> "Missing submission", feedback |-> <<"No submission received.">>,
     rubric_details |-> <<<<"No work submitted.", 0, "">>>>,
     rubric_scores |-> [k \in DOMAIN rubric_items |->
                           Score(rubric_items[k].criterion, 0, "No work submitted.", NoneVal)],
     submission_status |-> "Missing", original_score |-> NoneVal,
     original_feedback |-> ""]

\* lines 71-96: a missing submission graded as zero
MissingAsZero ==
    /\ pc = "loop"
    /\ i <= total
    /\ grade_missing_as_zero /\ submissions[i].missing
    /\ LET sub  == submissions[i]
           anon == AnonId(anon_map, sub.user_id)
       IN  /\ logs' = Log("no submission, zero", anon)
           /\ all_results' = Append(all_results, ZeroResult(sub, anon))
           /\ IF has_progress
              THEN \/ /\ progress' = Append(progress, <<i, total>>)
                      /\ i' = i + 1
                      /\ UNCHANGED <<pc, outcome>>
                   \/ /\ outcome' = "raised"      \* update_progress raises
                      /\ pc' = "done"
                      /\ UNCHANGED <<progress, i>>
              ELSE /\ i' = i + 1
                   /\ UNCHANGED <<progress, pc, outcome>>
    /\ UNCHANGED <<scope, audit_calls, csv_rows, assignment_id_ok, rubric_items, submissions, grade_missing_as_zero,
                   override_map, has_progress, DEBUG_MODE, anon_map, extraction_failures,
                   csv_path, cur, rv>>

\* lines 98-118: identifiers, status, and the check of the attachments
BeginSubmission ==
    /\ pc = "loop"
    /\ i <= total
    /\ ~(grade_missing_as_zero /\ submissions[i].missing)
    /\ LET sub  == submissions[i]
           anon == AnonId(anon_map, sub.user_id)
       IN  /\ cur' = [NoCur EXCEPT !.user_id = sub.user_id, !.anon_id = anon,
                                   !.status = InlineStatus(sub)]
           /\ IF sub.attachments = <<>>
              THEN /\ logs' = Log("no submission files", anon)
                   /\ i' = i + 1
                   /\ UNCHANGED pc
              ELSE /\ logs' = Log("found files", anon)
                   /\ pc' = "download"
                   /\ UNCHANGED i
    /\ rv' = NoRv
    /\ UNCHANGED <<scope, audit_calls, csv_rows, assignment_id_ok, rubric_items, submissions, grade_missing_as_zero,
                   override_map, has_progress, DEBUG_MODE, anon_map, all_results,
                   extraction_failures, progress, csv_path, outcome>>

\* lines 119-123: canvas.download_submission_attachments returns one path per
\* attachment, downloaded or not, or raises
Download ==
    /\ pc = "download"
    /\ \/ /\ cur' = [cur EXCEPT !.file_paths = submissions[i].attachments]
          /\ IF submissions[i].attachments = <<>>
             THEN /\ logs' = Log("downloading failed", cur.anon_id)
                  /\ i' = i + 1
                  /\ pc' = "loop"
             ELSE /\ pc' = "materialize"
                  /\ UNCHANGED <<logs, i>>
          /\ UNCHANGED extraction_failures
       \/ Handler("download error", logs, cur)
    /\ UNCHANGED <<scope, audit_calls, csv_rows, assignment_id_ok, rubric_items, submissions, grade_missing_as_zero,
                   override_map, has_progress, DEBUG_MODE, anon_map, all_results,
                   progress, csv_path, outcome, rv>>

\* lines 125-142: prepare_submission_for_grading and the check of its text
Materialize ==
    /\ pc = "materialize"
    /\ LET r  == prepare_submission_for_grading(cur.file_paths)
           lg == Log("creating final pdf", cur.anon_id)
       IN  IF r.raises
           THEN Handler("merge error", lg, Called(cur, "materialize"))
           ELSE /\ cur' = [Called(cur, "materialize") EXCEPT
                              !.merged_exists = r.written, !.content_text = r.text,
                              !.skipped = r.skipped]
                /\ IF r.text = <<>>
                   THEN /\ logs' = Append(Append(lg, <<"extracted words", cur.anon_id>>),
                                          <<"no extractable text", cur.anon_id>>)
                        /\ extraction_failures' =
                               Append(extraction_failures,
                                      Failure("No extractable text in submission"))
                        /\ i' = i + 1
                        /\ pc' = "loop"
                   ELSE /\ logs' = Append(lg, <<"extracted words", cur.anon_id>>)
                        /\ pc' = "grade"
                        /\ UNCHANGED <<extraction_failures, i>>
    /\ UNCHANGED <<scope, audit_calls, csv_rows, assignment_id_ok, rubric_items, submissions, grade_missing_as_zero,
                   override_map, has_progress, DEBUG_MODE, anon_map, all_results,
                   progress, csv_path, outcome, rv>>

\* a loop body that hands the reply of the grader to the reviewer as it is:
\* nothing is reconciled before the review
Grade_unreconciled ==
    /\ pc = "grade"
    /\ \E run \in GraderRuns(scope) :
          LET g == grade(run, cur.merged_exists)
              reply == g.result
              graded == [Called(cur, "grade") EXCEPT
                            !.run = run, !.path = g.path, !.reply = reply]
          IN  IF CoerceRaises(reply)
              THEN Handler("could not convert to float", logs,
                           [graded EXCEPT !.grading_result = reply])
              ELSE /\ cur' = [graded EXCEPT !.grading_result = CoercePoints(reply),
                                             !.primary = CoercePoints(reply)]
                   /\ logs' = Log("grading complete", cur.anon_id)
                   /\ pc' = "review"
                   /\ UNCHANGED <<extraction_failures, i>>
    /\ UNCHANGED <<scope, audit_calls, csv_rows, assignment_id_ok, rubric_items, submissions, grade_missing_as_zero,
                   override_map, has_progress, DEBUG_MODE, anon_map, all_results,
                   progress, csv_path, outcome, rv>>

\* a loop body for which the sentinel of the grader is an error of the submitter
Grade_sentinel_fails ==
    /\ pc = "grade"
    /\ \E run \in GraderRuns(scope) :
          LET g == grade(run, cur.merged_exists)
              reply == g.result
              graded == [Called(Called(cur, "grade"), "reconcile") EXCEPT
                            !.run = run, !.path = g.path, !.reply = reply]
              grading_result == ensure_grading_completeness(reply, rubric_items)
          IN  IF CoerceRaises(grading_result) \/ reply.rubric_scores = <<>>
              THEN Handler("could not convert to float", logs,
                           [graded EXCEPT !.grading_result = grading_result])
              ELSE /\ cur' = [graded EXCEPT !.grading_result = CoercePoints(grading_result),
                                             !.primary = CoercePoints(grading_result)]
                   /\ logs' = Log("grading complete", cur.anon_id)
                   /\ pc' = "review"
                   /\ UNCHANGED <<extraction_failures, i>>
    /\ UNCHANGED <<scope, audit_calls, csv_rows, assignment_id_ok, rubric_items, submissions, grade_missing_as_zero,
                   override_map, has_progress, DEBUG_MODE, anon_map, all_results,
                   progress, csv_path, outcome, rv>>

\* lines 144-150: grader.grade, ensure_grading_completeness, integer points
Grade ==
    /\ pc = "grade"
    /\ \E run \in GraderRuns(scope) :
          LET g == grade(run, cur.merged_exists)
              reply == g.result
              graded == [Called(Called(cur, "grade"), "reconcile") EXCEPT
                            !.run = run, !.path = g.path, !.reply = reply]
              grading_result == ensure_grading_completeness(reply, rubric_items)
          IN  IF CoerceRaises(grading_result)
              THEN Handler("could not convert to float", logs,
                           [graded EXCEPT !.grading_result = grading_result])
              ELSE /\ cur' = [graded EXCEPT !.grading_result = CoercePoints(grading_result),
                                             !.primary = CoercePoints(grading_result)]
                   /\ logs' = Log("grading complete", cur.anon_id)
                   /\ pc' = "review"
                   /\ UNCHANGED <<extraction_failures, i>>
    /\ UNCHANGED <<scope, audit_calls, csv_rows, assignment_id_ok, rubric_items, submissions, grade_missing_as_zero,
                   override_map, has_progress, DEBUG_MODE, anon_map, all_results,
                   progress, csv_path, outcome, rv>>

\* a review that takes the text alone when no document exists at the path
ReviewEnter_text_only ==
    /\ pc = "review"
    /\ rv' = [NoRv EXCEPT !.entered = TRUE]
    /\ cur' = Called(cur, "review")
    /\ pc' = "rv_upload"
    /\ UNCHANGED <<logs, extraction_failures, i>>
    /\ UNCHANGED <<scope, audit_calls, csv_rows, assignment_id_ok, rubric_items, submissions, grade_missing_as_zero,
                   override_map, has_progress, DEBUG_MODE, anon_map, all_results,
                   progress, csv_path, outcome>>

\* reviewer.py lines 65-66: the document must exist at submission_path
ReviewEnter ==
    /\ pc = "review"
    /\ IF ~cur.merged_exists
       THEN /\ Handler("Submission file is required for fairness review", logs,
                       Called(cur, "review"))
            /\ UNCHANGED rv
       ELSE /\ rv' = [NoRv EXCEPT !.entered = TRUE]
            /\ cur' = Called(cur, "review")
            /\ pc' = "rv_upload"
            /\ UNCHANGED <<logs, extraction_failures, i>>
    /\ UNCHANGED <<scope, audit_calls, csv_rows, assignment_id_ok, rubric_items, submissions, grade_missing_as_zero,
                   override_map, has_progress, DEBUG_MODE, anon_map, all_results,
                   progress, csv_path, outcome>>

ReviewUnchanged ==
    UNCHANGED <<scope, audit_calls, csv_rows, assignment_id_ok, rubric_items, submissions, grade_missing_as_zero,
                override_map, has_progress, DEBUG_MODE, anon_map, all_results,
                progress, csv_path, outcome, cur, logs, extraction_failures, i>>

\* the except branch of review: the verdict to return once finally has run
ReviewExcept(what) ==
    /\ rv' = [rv EXCEPT !.ret = ReviewExceptVerdict, !.failure = what]
    /\ pc' = "rv_finally"

\* reviewer.py lines 71-73: genai.upload_file
RvUpload ==
    /\ pc = "rv_upload"
    /\ \/ /\ rv' = [rv EXCEPT !.uploaded_file = TRUE, !.remote = "present"]
          /\ pc' = "rv_generate"
       \/ ReviewExcept("upload")
    /\ ReviewUnchanged

\* reviewer.py lines 75-109: the prompt, generate_content, response.text
RvGenerate ==
    /\ pc = "rv_generate"
    /\ \/ \E reply \in ReviewerReplies(scope) :
              /\ rv' = [rv EXCEPT !.text = reply, !.has_text = TRUE]
              /\ pc' = IF DEBUG_MODE THEN "rv_debug" ELSE "rv_parse"
       \/ ReviewExcept("generate")
    /\ ReviewUnchanged

\* reviewer.py lines 111-116: the reply written to debug_outputs
RvDebug ==
    /\ pc = "rv_debug"
    /\ \/ /\ pc' = "rv_parse"
          /\ UNCHANGED rv
       \/ ReviewExcept("debug")
    /\ ReviewUnchanged

\* reviewer.py line 118: return extract_review_json(text)
RvParse ==
    /\ pc = "rv_parse"
    /\ rv' = [rv EXCEPT !.ret = extract_review_json(rv.text),
                        !.failure = IF rv.text.parsable THEN "none" ELSE "parse"]
    /\ pc' = "rv_finally"
    /\ ReviewUnchanged

\* a review whose cleanup stands after the return statement, not in a finally
\* clause: the except branch returns without it
RvFinally_after_return ==
    /\ pc = "rv_finally"
    /\ IF rv.uploaded_file /\ rv.failure \in {"none", "parse"}
       THEN \/ /\ rv' = [rv EXCEPT !.remote = "deleted", !.delete_calls = @ + 1,
                                   !.exit = "returned"]
               /\ cur' = [cur EXCEPT !.verdict = rv.ret]
               /\ pc' = "resolve"
               /\ UNCHANGED <<logs, extraction_failures, i>>
            \/ /\ rv' = [rv EXCEPT !.delete_calls = @ + 1, !.delete_failed = TRUE,
                                   !.exit = "raised"]
               /\ Handler("delete_file error", logs, cur)
       ELSE /\ rv' = [rv EXCEPT !.exit = "returned"]
            /\ cur' = [cur EXCEPT !.verdict = rv.ret]
            /\ pc' = "resolve"
            /\ UNCHANGED <<logs, extraction_failures, i>>
    /\ UNCHANGED <<scope, audit_calls, csv_rows, assignment_id_ok, rubric_items, submissions, grade_missing_as_zero,
                   override_map, has_progress, DEBUG_MODE, anon_map, all_results,
                   progress, csv_path, outcome>>

\* reviewer.py lines 123-127: the finally clause, then the return to line 151
RvFinally ==
    /\ pc = "rv_finally"
    /\ IF rv.uploaded_file
       THEN \/ /\ rv' = [rv EXCEPT !.remote = "deleted", !.delete_calls = @ + 1,
                                   !.exit = "returned"]
               /\ cur' = [cur EXCEPT !.verdict = rv.ret]
               /\ pc' = "resolve"
               /\ UNCHANGED <<logs, extraction_failures, i>>
            \/ /\ rv' = [rv EXCEPT !.delete_calls = @ + 1, !.delete_failed = TRUE,
                                   !.exit = "raised"]
               /\ Handler("delete_file error", logs, cur)   \* genai.delete_file raises
       ELSE /\ rv' = [rv EXCEPT !.exit = "returned"]
            /\ cur' = [cur EXCEPT !.verdict = rv.ret]
            /\ pc' = "resolve"
            /\ UNCHANGED <<logs, extraction_failures, i>>
    /\ UNCHANGED <<scope, audit_calls, csv_rows, assignment_id_ok, rubric_items, submissions, grade_missing_as_zero,
                   override_map, has_progress, DEBUG_MODE, anon_map, all_results,
                   progress, csv_path, outcome>>

\* the rubric_scores an override carries, or the single "Manual Override" entry
OverrideScores(override) ==
    IF override.has_rubric_scores THEN override.rubric_scores
    ELSE <<Score("Manual Override", override.score, "Instructor override", NoneVal)>>

\* lines 218-230: the RunResult appended to all_results
RunResult(total_score, was_regraded, general_comment, rubric_scores) ==
    [user_id |-> cur.user_id, anon_id |-> cur.anon_id, score |-> total_score,
     was_regraded |-> was_regraded,
     review_reason |-> IF ~cur.verdict.fair THEN cur.verdict.reason ELSE "",
     feedback |-> general_comment,
     rubric_details |-> RubricLines(rubric_scores),
     rubric_scores |-> rubric_scores,
     submission_status |-> cur.status,
     original_score |-> IF was_regraded THEN SumPoints(cur.primary.rubric_scores)
                        ELSE NoneVal,
     original_feedback |-> IF was_regraded THEN Strip(cur.primary.overall_feedback)
                           ELSE ""]

\* lines 152-233: the consensus on the verdict, the presented scores, the manual
\* override, and the append of the RunResult
Resolve ==
    /\ pc = "resolve"
    /\ LET verdict == cur.verdict
           lg0 == Log(IF verdict.fair THEN "review passed" ELSE "flagged unfair",
                      cur.anon_id)
           revised_grade ==
               ensure_grading_completeness(verdict.revised_grade, rubric_items)
       IN  IF ApplyRevision(verdict) /\ CoerceRaises(revised_grade)
           THEN /\ Handler("could not convert to float", lg0, Called(cur, "reconcile"))
                /\ UNCHANGED all_results
           ELSE LET regraded == ApplyRevision(verdict)
                    grading_result == IF regraded THEN CoercePoints(revised_grade)
                                      ELSE cur.grading_result
                    lg1 == Append(lg0,
                               <<IF regraded THEN "revised grade"
                                 ELSE IF LowConfidence(verdict) THEN "confidence too low"
                                 ELSE "graded", cur.anon_id>>)
                    overridden == override_map /= NoOverrides
                                  /\ cur.user_id \in DOMAIN override_map
                    rubric_scores ==
                        IF overridden THEN OverrideScores(override_map[cur.user_id])
                        ELSE PresentedScores(grading_result)
                    total_score ==
                        IF overridden THEN override_map[cur.user_id].score
                        ELSE SumPoints(PresentedScores(grading_result))
                    general_comment ==
                        IF overridden THEN <<override_map[cur.user_id].feedback>>
                        ELSE GeneralComment(grading_result)
                IN  /\ logs' = IF overridden
                               THEN Append(lg1, <<"manual override", cur.anon_id>>)
                               ELSE lg1
                    /\ all_results' =
                           Append(all_results,
                                  RunResult(total_score, regraded \/ overridden,
                                            general_comment, rubric_scores))
                    /\ cur' = [(IF regraded THEN Called(cur, "reconcile") ELSE cur)
                                  EXCEPT !.grading_result =
                                  [grading_result EXCEPT
                                      !.rubric_scores = rubric_scores,
                                      !.has_scores = TRUE]]
                    /\ pc' = "progress"
                    /\ UNCHANGED <<extraction_failures, i>>
    /\ UNCHANGED <<scope, audit_calls, csv_rows, assignment_id_ok, rubric_items, submissions, grade_missing_as_zero,
                   override_map, has_progress, DEBUG_MODE, anon_map, progress, csv_path,
                   outcome, rv>>

\* lines 235-236: the progress update that ends the iteration
Progress ==
    /\ pc = "progress"
    /\ IF has_progress
       THEN \/ /\ progress' = Append(progress, <<i, total>>)
               /\ i' = i + 1
               /\ pc' = "loop"
               /\ UNCHANGED <<logs, extraction_failures>>
               /\ UNCHANGED cur
            \/ /\ Handler("update_progress error", logs, cur)
               /\ UNCHANGED progress
       ELSE /\ i' = i + 1
            /\ pc' = "loop"
            /\ UNCHANGED <<progress, logs, extraction_failures, cur>>
    /\ UNCHANGED <<scope, audit_calls, csv_rows, assignment_id_ok, rubric_items, submissions, grade_missing_as_zero,
                   override_map, has_progress, DEBUG_MODE, anon_map, all_results, csv_path,
                   outcome, rv>>

\* csv.DictWriter(f, fieldnames).writerow: the values of the row under the field
\* names, "" for a field the row lacks
Row(fieldnames, result) ==
    [f \in fieldnames |-> IF f \in DOMAIN result THEN result[f] ELSE ""]

\* DictWriter raises ValueError on a row with a key outside fieldnames
RowRaises(fieldnames, result) == ~(DOMAIN result \subseteq fieldnames)

\* an export that writes the file, header only, when there is no result
Export_always_writes ==
    /\ pc = "loop"
    /\ i > total
    /\ csv_path' = "written"
    /\ csv_rows' = all_results
    /\ logs' = Append(Log("exported grades", 0), <<"batch grading complete", 0>>)
    /\ outcome' = "returned"
    /\ pc' = "done"
    /\ UNCHANGED <<scope, audit_calls, assignment_id_ok, rubric_items, submissions, grade_missing_as_zero,
                   override_map, has_progress, DEBUG_MODE, i, anon_map, all_results,
                   extraction_failures, progress, cur, rv>>

\* lines 247-271: the export and the return
Export ==
    /\ pc = "loop"
    /\ i > total
    /\ IF all_results /= <<>>
       THEN LET fieldnames == DOMAIN all_results[1]
            IN  \/ /\ \A k \in DOMAIN all_results : ~RowRaises(fieldnames, all_results[k])
                   /\ csv_path' = "written"
                   /\ csv_rows' = [k \in DOMAIN all_results |->
                                      Row(fieldnames, all_results[k])]
                   /\ logs' = Append(Log("exported grades", 0),
                                     <<"batch grading complete", 0>>)
                   /\ outcome' = "returned"
                \/ /\ outcome' = "raised"      \* makedirs, open or a write raises
                   /\ UNCHANGED <<csv_path, csv_rows, logs>>
       ELSE /\ logs' = Append(Log("no results to export", 0),
                              <<"batch grading complete", 0>>)
            /\ outcome' = "returned"
            /\ UNCHANGED <<csv_path, csv_rows>>
    /\ pc' = "done"
    /\ UNCHANGED <<scope, audit_calls, assignment_id_ok, rubric_items, submissions, grade_missing_as_zero,
                   override_map, has_progress, DEBUG_MODE, i, anon_map, all_results,
                   extraction_failures, progress, cur, rv>>

Next ==
    \/ Start
    \/ MissingAsZero
    \/ BeginSubmission
    \/ Download
    \/ Materialize
    \/ Grade
    \/ ReviewEnter
    \/ RvUpload
    \/ RvGenerate
    \/ RvDebug
    \/ RvParse
    \/ RvFinally
    \/ Resolve
    \/ Progress
    \/ Export

Spec == InitBatch /\ [][Next]_vars

SpecPipeline == InitPipeline /\ [][Next]_vars

SpecGrader == InitGrader /\ [][Next]_vars

----------------------------------------------------------------------------
(* Properties *)

LastResult == all_results[Len(all_results)]

\* the current submitter has an instructor override
Overridden == override_map /= NoOverrides /\ cur.user_id \in DOMAIN override_map

\* the RunResult of the current submitter has just been appended
JustResolved == pc = "progress"

\* criterion and reason of every entry, in order
EntryNames(scores) == [k \in DOMAIN scores |-> <<scores[k].criterion, scores[k].reason>>]

ResultsOf(uid) == {k \in DOMAIN all_results : all_results[k].user_id = uid}

FailuresOf(uid) == {k \in DOMAIN extraction_failures : extraction_failures[k].user_id = uid}

\* C1: for a reviewed submitter without a manual override the final result is
\* the reviewer's alternative exactly when the verdict is unfair with confidence
\* of at least 0.7 and a non-null alternative; otherwise the primary result
\* stands and the final score is the total of the primary result.
C1_ConsensusRule ==
    (JustResolved /\ ~Overridden) =>
        LET v          == cur.verdict
            substitute == ~v.fair /\ v.confidence >= 70 /\ v.revised_grade /= None
            source     == IF substitute
                          THEN ensure_grading_completeness(v.revised_grade, rubric_items)
                          ELSE cur.primary
        IN  /\ LastResult.was_regraded = substitute
            /\ EntryNames(LastResult.rubric_scores) = EntryNames(source.rubric_scores)
            /\ LastResult.feedback = GeneralComment(source)
            /\ ~substitute => LastResult.score = SumPoints(cur.primary.rubric_scores)

\* the consensus condition as the specification states it
Substituted(v) == ~v.fair /\ v.confidence >= 70 /\ v.revised_grade /= None

\* C2: when a substitution occurs (no override) the RunResult is flagged as
\* substituted, its score is the total of the reconciled alternative, and the
\* original fields hold the total and the feedback of the primary result; with
\* no substitution the original fields are empty.  The scenario of the
\* specification gives 20, substituted, original 14.
C2_SubstitutionAudit ==
    (JustResolved /\ ~Overridden) =>
        LET v   == cur.verdict
            alt == CoercePoints(ensure_grading_completeness(v.revised_grade, rubric_items))
        IN  /\ Substituted(v) =>
                /\ LastResult.was_regraded
                /\ LastResult.score = SumPoints(alt.rubric_scores)
                /\ LastResult.original_score = SumPoints(cur.primary.rubric_scores)
                /\ LastResult.original_feedback = Strip(cur.primary.overall_feedback)
            /\ ~Substituted(v) =>
                /\ LastResult.original_score = NoneVal
                /\ LastResult.original_feedback = ""
            /\ (cur.reply = GradeExample /\ Substituted(v) /\ v.revised_grade = AltExample) =>
                /\ LastResult.score = Pts(20)
                /\ LastResult.original_score = Pts(14)

RubricCriteria == {rubric_items[k].criterion : k \in DOMAIN rubric_items}

\* C3: in every RunResult no criterion of the rubric holds more points than
\* the maximum the rubric gives it (a value above the maximum becomes 0).
C3_ScoreCeiling ==
    \A n \in DOMAIN all_results :
        \A k \in DOMAIN all_results[n].rubric_scores :
            \A j \in DOMAIN rubric_items :
                all_results[n].rubric_scores[k].criterion = rubric_items[j].criterion
                    => all_results[n].rubric_scores[k].points <= rubric_items[j].max_points

\* every criterion of the rubric exactly once, and nothing else
ExactlyRubric(scores) ==
    /\ Len(scores) = Len(rubric_items)
    /\ CriteriaOf(scores) = RubricCriteria

\* C4 as claimed: after reconciliation the criteria of a result (primary,
\* sentinel, alternative) are exactly the criteria of the rubric, each once.
C4_ExactCriterionSet ==
    /\ pc = "review" => ExactlyRubric(cur.grading_result.rubric_scores)
    /\ (JustResolved /\ ~Overridden /\ Substituted(cur.verdict))
           => ExactlyRubric(LastResult.rubric_scores)

\* out is raw with a zero entry appended, in rubric order, for every criterion
\* of the rubric that raw does not name; the entries of raw are kept in place
CompletedFrom(raw, out) ==
    IF raw.kind = "none" \/ ~raw.has_scores
    THEN out = <<>>
    ELSE LET n       == Len(raw.rubric_scores)
             missing == SelectSeq([k \in DOMAIN rubric_items |-> rubric_items[k].criterion],
                                  LAMBDA c : c \notin CriteriaOf(raw.rubric_scores))
         IN  /\ RubricCriteria \subseteq CriteriaOf(out)
             /\ Len(out) = n + Len(missing)
             /\ \A k \in 1..n :
                    /\ out[k].criterion = raw.rubric_scores[k].criterion
                    /\ out[k].reason = raw.rubric_scores[k].reason
             /\ \A k \in 1..Len(missing) :
                    /\ out[n + k].criterion = missing[k]
                    /\ out[n + k].points = 0
                    /\ out[n + k].reason = NotAddressed

\* C4 as amended: after reconciliation every criterion of the rubric has at
\* least one entry; the entries the model returned stay (a criterion outside the
\* rubric and a repeated criterion are not removed), the missing criteria are
\* appended once each with zero points; a payload without a score list gets none.
C4_EveryCriterionCovered ==
    /\ pc = "review" => CompletedFrom(cur.reply, cur.grading_result.rubric_scores)
    /\ (JustResolved /\ ~Overridden /\ Substituted(cur.verdict))
           => CompletedFrom(cur.verdict.revised_grade, LastResult.rubric_scores)

\* a reply with a criterion outside the rubric and a missing one was reconciled
C4_Witness ==
    /\ pc = "review"
    /\ "Style" \notin RubricCriteria
    /\ "Style" \in CriteriaOf(cur.grading_result.rubric_scores)
    /\ "Completeness" \notin CriteriaOf(cur.reply.rubric_scores)
    /\ "Completeness" \in CriteriaOf(cur.grading_result.rubric_scores)

\* the identifiers of the submitters of the batch
BatchUsers == {submissions[k].user_id : k \in DOMAIN submissions}

\* C5: when the batch has returned, every submitter without a RunResult has
\* exactly one record in the returned failure list (no attachments, no
\* extractable text, or an exception while grading or reviewing).
C5_EverySkippedSubmitterListed ==
    outcome = "returned" =>
        \A uid \in BatchUsers :
            ResultsOf(uid) = {} => Cardinality(FailuresOf(uid)) = 1

\* C6: a submitter is never both in the result list and in the failure list,
\* and never more than once in either, whichever step of the block raises.
C6_AllOrNothing ==
    \A uid \in BatchUsers :
        /\ Cardinality(ResultsOf(uid)) <= 1
        /\ Cardinality(FailuresOf(uid)) <= 1
        /\ ResultsOf(uid) = {} \/ FailuresOf(uid) = {}

\* the exceptions the stages of one submitter raise (download, materialize,
\* grade and reconcile, review, consensus)
StageErrors ==
    {"download error", "merge error", "could not convert to float",
     "Submission file is required for fairness review", "delete_file error"}

\* the step in which a stage of the current submitter raises
StageRaises == cur.exc = "none" /\ cur'.exc \in StageErrors

\* what the step in which a stage raises does, and which steps end the call
StageStep ==
    /\ StageRaises =>
          /\ outcome' = "running"
          /\ pc' = "loop"
          /\ i' = i + 1
          /\ logs' /= <<>>
          /\ logs'[Len(logs')] =
                 <<"error grading", AnonId(anon_map, submissions[i].user_id)>>
          /\ extraction_failures' =
                 Append(extraction_failures,
                        [user_id |-> submissions[i].user_id,
                         anon_id |-> AnonId(anon_map, submissions[i].user_id),
                         status  |-> InlineStatus(submissions[i]),
                         reason  |-> cur'.exc])
          /\ all_results' = all_results
    /\ (outcome = "running" /\ outcome' = "raised") => pc \in {"start", "loop"}

\* C7: an exception of a stage of one submitter does not leave the batch call:
\* the step that raises logs it with the anonymous label of the submitter,
\* appends one failure record for that submitter and moves the loop to the next
\* submitter; no step of a stage makes the call raise, and a batch that returns
\* has processed every submitter.
C7_StageExceptionContained ==
    /\ [][StageStep]_vars
    /\ [](outcome = "returned" =>
             \A k \in DOMAIN submissions :
                 \E l \in DOMAIN logs :
                     logs[l][2] = AnonId(anon_map, submissions[k].user_id))

\* the first of two submitters failed in a stage, the second has a RunResult,
\* and the batch returned
C7_Witness ==
    /\ outcome = "returned"
    /\ Len(submissions) = 2
    /\ \E k \in FailuresOf(submissions[1].user_id) :
           extraction_failures[k].reason \in StageErrors
    /\ ResultsOf(submissions[1].user_id) = {}
    /\ ResultsOf(submissions[2].user_id) /= {}

\* review was entered (the document exists) and is over, and a step of it
\* failed: the upload, the model call, the debug output, the parsing of the
\* reply, or the deletion of the uploaded file
ReviewFailed ==
    /\ rv.entered
    /\ rv.exit /= "none"
    /\ rv.failure /= "none" \/ rv.delete_failed

\* C8: a failure of the reviewer after its precondition passed never blocks
\* grading: the submitter gets a RunResult that carries the primary result and
\* is not marked as substituted, and is in no failure bucket.
C8_ReviewerFailureNeverBlocks ==
    (ReviewFailed /\ ~Overridden /\ cur.exc /= "update_progress error") =>
        /\ FailuresOf(cur.user_id) = {}
        /\ pc /= "resolve" =>
              \E k \in ResultsOf(cur.user_id) :
                  /\ ~all_results[k].was_regraded
                  /\ EntryNames(all_results[k].rubric_scores)
                         = EntryNames(cur.primary.rubric_scores)

\* C9: when the upload or the model call fails, or the reply cannot be parsed
\* as a verdict, review returns fair = true, an empty reason, no alternative and
\* confidence 0.0.
C9_DefaultVerdict ==
    (rv.exit = "returned" /\ rv.failure \in {"upload", "generate", "parse"}) =>
        rv.ret = Verdict(TRUE, "", None, 0)

\* C10 as claimed: once review has returned or raised, no file it uploaded is
\* left on the remote side.
C10_NoUploadOutlivesReview == rv.exit /= "none" => rv.remote /= "present"

\* C10 as amended: on every exit of a review that uploaded a file, the normal
\* one and the ones through the except clause, delete_file has been called
\* once; the file is gone whenever that call succeeded, so whenever review
\* returns; the file is left only when delete_file itself raised, and then
\* review raises.  A review that uploaded nothing calls no deletion.
C10_ReleaseOnEveryExit ==
    rv.exit /= "none" =>
        /\ rv.uploaded_file =>
              /\ rv.delete_calls = 1
              /\ ~rv.delete_failed => rv.remote = "deleted"
        /\ ~rv.uploaded_file => rv.delete_calls = 0 /\ rv.remote = "none"
        /\ rv.exit = "returned" => rv.remote /= "present"
        /\ rv.remote = "present" => rv.delete_failed /\ rv.exit = "raised"

\* the model call failed after the upload, and review returned with the file deleted
C10_Witness ==
    /\ rv.exit = "returned"
    /\ rv.failure = "generate"
    /\ rv.uploaded_file
    /\ rv.remote = "deleted"

\* the reason of the failure record of a submission without extractable text
NoTextReason == "No extractable text in submission"

\* the submission of the batch with this identifier
SubmissionOf(uid) == CHOOSE sub \in Range(submissions) : sub.user_id = uid

\* C11: a run with a progress sink that returns has delivered, after the
\* initial (0, N), exactly one update per submitter, the i-th being (i, N),
\* whether the submitter was graded, skipped or failed.
C11_ProgressAfterEverySubmitter ==
    (outcome = "returned" /\ has_progress) =>
        progress = <<<<0, total>>>> \o [k \in 1..total |-> <<k, total>>]

\* C12: a processed submitter without attachments has a failure record and no
\* RunResult.
C12_NoFilesRecorded ==
    \A k \in DOMAIN submissions :
        (k < i /\ submissions[k].attachments = <<>>) =>
            /\ FailuresOf(submissions[k].user_id) /= {}
            /\ ResultsOf(submissions[k].user_id) = {}

\* an attachment that prepare_submission_for_grading accepts: it goes on
\* pdfs_to_merge or its text is taken from the DOCX container
Accepted(f) == ToMerge(f) \/ DirectDocx(f)

\* C13: the no-text reason is used only for a submitter of whom at least one
\* attachment was accepted; a submitter none of whose attachments is usable
\* is recorded with another reason.
C13_NoFilesDistinctFromNoText ==
    \A n \in DOMAIN extraction_failures :
        extraction_failures[n].reason = NoTextReason =>
            \E f \in Range(SubmissionOf(extraction_failures[n].user_id).attachments) :
                Accepted(f)

\* an attachment from which text can be taken: an accepted page-based
\* document with a text layer or recognisable text, or a readable DOCX
YieldsText(f) ==
    \/ ToMerge(f) /\ (f.text_layer \/ f.ocr_text)
    \/ DirectDocx(f)

NoTextIn(files) == \A k \in DOMAIN files : ~YieldsText(files[k])

\* merge_pdfs fails on one of the documents to merge
MergeFails(files) == \E k \in DOMAIN files : ToMerge(files[k]) /\ ~files[k].mergeable

\* the materialize step records the current submitter as without text and
\* goes to the next submitter, the grader and the reviewer not being called
RecordedNoText ==
    /\ cur'.exc = "none"
    /\ cur'.content_text = <<>>
    /\ extraction_failures' = Append(extraction_failures, Failure(NoTextReason))
    /\ all_results' = all_results
    /\ cur'.reply = None
    /\ rv' = rv /\ ~rv.entered
    /\ pc' = "loop"
    /\ i' = i + 1
    /\ outcome' = "running"

\* C14 as claimed: when no attachment yields text, materialize does not raise
\* and the submitter is recorded as a no-text failure.
C14_NoTextNeverRaises ==
    [][(pc = "materialize" /\ NoTextIn(cur.file_paths)) => RecordedNoText]_vars

\* the materialize step of files without text
NoTextStep ==
    (pc = "materialize" /\ NoTextIn(cur.file_paths)) =>
        IF MergeFails(cur.file_paths)
        THEN cur'.exc = "merge error" /\ pc' = "loop" /\ i' = i + 1
        ELSE RecordedNoText

\* C14 as amended: when no attachment yields text and merge_pdfs does not
\* fail, materialize returns the empty text without raising, the submitter is
\* recorded as a no-text failure, the grader and the reviewer are not called
\* for it, and the loop goes on; when merge_pdfs fails on such files its
\* exception leaves materialize and the submitter is recorded with that
\* exception.  The grader is never reached with an empty text.
C14_NoTextIsRecordedFailure ==
    /\ [][NoTextStep]_vars
    /\ [](pc \in {"grade", "review", "rv_upload", "rv_generate", "rv_debug", "rv_parse",
                  "rv_finally", "resolve", "progress"} => cur.content_text /= <<>>)

\* an accepted document without text was recorded as a no-text failure
C14_Witness ==
    /\ pc = "loop"
    /\ i = 2
    /\ cur.exc = "none"
    /\ cur.file_paths /= <<>>
    /\ \E k \in DOMAIN cur.file_paths : Accepted(cur.file_paths[k])
    /\ NoTextIn(cur.file_paths)
    /\ \E n \in FailuresOf(cur.user_id) : extraction_failures[n].reason = NoTextReason

\* C15: when the verdict is unfair and there is no substitution (confidence
\* below 0.7, or no alternative), the primary result is kept and the log holds
\* a low-confidence notice for the submitter.
C15_LowConfidenceNotice ==
    (JustResolved /\ ~cur.verdict.fair /\ ~Substituted(cur.verdict)) =>
        /\ \E l \in DOMAIN logs : logs[l] = <<"confidence too low", cur.anon_id>>
        /\ ~Overridden =>
              /\ ~LastResult.was_regraded
              /\ EntryNames(LastResult.rubric_scores) = EntryNames(cur.primary.rubric_scores)

\* the outcome met by the path whose result grade returned
UsedOutcome(c) == IF c.path = "vision" THEN c.run.vision ELSE c.run.text

\* responses that are no grading JSON: no braces, no JSON between the braces,
\* or JSON that fails _validate_grading_json
Malformed == {NoBraces, BadJson, Response(GradeNoScores)}

\* one zero-point entry per criterion of the rubric, in rubric order
ZeroFilled ==
    [k \in DOMAIN rubric_items |-> Score(rubric_items[k].criterion, 0, NotAddressed, NoneVal)]

\* the grade step of a malformed response: the sentinel, reconciled to zero
\* entries, goes on to the review; nothing is recorded as failed
SentinelStep ==
    (pc = "grade" /\ cur'.path /= "none" /\ UsedOutcome(cur') \in Malformed) =>
        /\ cur'.reply = Sentinel
        /\ cur'.reply.rubric_scores = <<>>
        /\ cur'.reply.overall_feedback /= ""
        /\ cur'.exc = "none"
        /\ cur'.grading_result.rubric_scores = ZeroFilled
        /\ extraction_failures' = extraction_failures
        /\ outcome' = "running"
        /\ pc' = "review"

VisionFailures == {RenderError, ApiError, EmptyResponse}

\* C17: when grade is given an existing document and the vision path fails,
\* grade returns the result of the text-only path; the failure of the vision
\* path is neither raised nor returned as the result.
C17_VisionFailureFallsBack ==
    [][(pc = "grade" /\ cur.merged_exists /\ cur'.path /= "none"
          /\ cur'.run.vision \in VisionFailures)
         => /\ cur'.path = "text"
            /\ cur'.reply = grade_text(cur'.run.text)
            /\ cur'.reply /= VisionEmpty
            /\ cur'.exc \in {"none", "could not convert to float"}]_vars

\* the identifiers of the batch in the order of the submissions
RealIds == [k \in DOMAIN submissions |-> submissions[k].user_id]

\* the mapping has been built (line 59)
MappingBuilt == pc /= "start" /\ (pc = "done" => anon_map /= <<>> \/ outcome = "returned")

HasDuplicates(mapping) ==
    \E u, v \in DOMAIN mapping : u /= v /\ Label(mapping[u]) = Label(mapping[v])

\* C19: the mapping of the batch is checked for duplicate labels and keys when
\* it is built, before any submitter is processed, and a run does not go on
\* with a mapping that has duplicates: it raises.
C19_IntegrityCheckedWhenBuilt ==
    /\ MappingBuilt => audit_calls >= 1
    /\ (MappingBuilt /\ HasDuplicates(anon_map)) =>
           outcome = "raised" /\ all_results = <<>> /\ extraction_failures = <<>>

\* C20 as claimed: the verdict review returns carries an alternative exactly
\* when its fairness flag is false.
C20_AlternativeIffUnfair ==
    rv.exit = "returned" => (rv.ret.revised_grade /= None <=> ~rv.ret.fair)

\* C20 as amended: a fair verdict never carries an alternative, whatever the
\* reply suggests; an unfair verdict carries what the reply holds under
\* suggested_grading_result, and none when that is null or absent.
C20_NoAlternativeWhenFair ==
    rv.exit = "returned" =>
        /\ rv.ret.fair => rv.ret.revised_grade = None
        /\ ~rv.ret.fair =>
              /\ rv.has_text /\ rv.text.parsable
              /\ rv.ret.revised_grade =
                     IF "suggested_grading_result" \in rv.text.keys
                     THEN rv.text.suggested_grading_result
                     ELSE None

\* a reply that is fair and yet suggests a result was returned without it
C20_Witness ==
    /\ rv.exit = "returned"
    /\ rv.failure = "none"
    /\ rv.text.parsable /\ rv.text.fair
    /\ "suggested_grading_result" \in rv.text.keys
    /\ rv.text.suggested_grading_result /= None
    /\ rv.ret.fair
    /\ rv.ret.revised_grade = None

----------------------------------------------------------------------------
(* C21: the precondition of review *)

MissingDocumentError == "Submission file is required for fairness review"

\* the call of review at a path where no document exists
ReviewWithoutDocument ==
    (pc = "review" /\ ~cur.merged_exists) =>
        /\ rv' = rv
        /\ ~rv'.entered /\ ~rv'.uploaded_file /\ ~rv'.has_text
        /\ cur'.exc = MissingDocumentError
        /\ extraction_failures' =
               Append(extraction_failures, Failure(MissingDocumentError))
        /\ all_results' = all_results

\* C21: review raises its precondition error, before any upload and before any
\* call of the model, whenever no document exists at the path it is given; the
\* body of review (upload, generation, parsing) is only ever entered with a
\* document, never on the text alone.
C21_ReviewRequiresDocument ==
    /\ [][ReviewWithoutDocument]_vars
    /\ [](rv.entered => cur.merged_exists)
    /\ [](pc \in {"rv_upload", "rv_generate", "rv_debug", "rv_parse", "rv_finally"}
             => cur.merged_exists)

\* a submitter with text and no document, whose review raised before any upload
C21_Witness ==
    /\ cur.exc = MissingDocumentError
    /\ cur.content_text /= <<>>
    /\ ~cur.merged_exists
    /\ rv = NoRv
    /\ \E k \in DOMAIN extraction_failures :
          extraction_failures[k].reason = MissingDocumentError

----------------------------------------------------------------------------
(* C22: the status recorded for a submitter *)

\* C22: for every combination of attempt (absent, 1, more than 1), late flag
\* and missing flag, the status recorded on a RunResult or on a failure record
\* is the derived status, the value get_submission_status returns for that
\* submission: Missing if the attempt is absent or the missing flag is set,
\* else Late, else Resubmitted, else On Time.
C22_RecordedStatusIsDerived ==
    /\ \A k \in DOMAIN all_results :
          all_results[k].submission_status =
              get_submission_status(SubmissionOf(all_results[k].user_id))
    /\ \A k \in DOMAIN extraction_failures :
          extraction_failures[k].status =
              get_submission_status(SubmissionOf(extraction_failures[k].user_id))

----------------------------------------------------------------------------
(* C23: reconciliation applied twice *)

Reconcile(r) == ensure_grading_completeness(r, rubric_items)

\* r has at least one entry for every criterion of the rubric
Complete(r) ==
    /\ r.kind /= "none"
    /\ r.has_scores
    /\ RubricCriteria \subseteq CriteriaOf(r.rubric_scores)

Idempotent(r) ==
    /\ Reconcile(Reconcile(r)) = Reconcile(r)
    /\ Complete(r) =>
          /\ Reconcile(r) = r
          /\ SumPoints(Reconcile(r).rubric_scores) = SumPoints(r.rubric_scores)

\* C23: reconciliation is idempotent.  For the reply of the grader and for the
\* alternative of the reviewer, reconciling the reconciled result gives the same
\* result, and a result that already has an entry for every criterion of the
\* rubric comes back unchanged (same entries, same order, same total); the
\* result the loop holds after line 145 is a fixed point of the reconciler.
C23_ReconcileIdempotent ==
    /\ cur.path /= "none" => Idempotent(cur.reply)
    /\ pc = "review" => Reconcile(cur.grading_result) = cur.grading_result
    /\ pc = "resolve" => Idempotent(cur.verdict.revised_grade)

\* the reconciler has completed an incomplete reply, and the review that
\* follows returned a complete alternative
C23_Witness ==
    /\ pc = "resolve"
    /\ ~Complete(cur.reply) /\ cur.reply.has_scores
    /\ Len(cur.primary.rubric_scores) > Len(cur.reply.rubric_scores)
    /\ Complete(cur.verdict.revised_grade)

----------------------------------------------------------------------------
(* C24: the export at the end of the batch *)

Logged(tag) == \E k \in DOMAIN logs : logs[k][1] = tag

\* the end of a batch without any result
EmptyBatchEnd ==
    (pc = "loop" /\ i > total /\ all_results = <<>>) =>
        /\ outcome' = "returned"
        /\ csv_path' = "none"

\* C24: in the value the batch returns, the path of the tabular artifact is
\* non-null if and only if the list of results is non-empty.  With at least one
\* RunResult the file holds exactly one row per RunResult, in the order of the
\* results; with no result no file is written, "no results to export" is
\* logged, and the call returns without raising.
C24_ArtifactIffResults ==
    /\ [](outcome = "returned" =>
            /\ (csv_path /= "none") <=> (all_results /= <<>>)
            /\ Len(csv_rows) = Len(all_results)
            /\ \A k \in DOMAIN all_results : csv_rows[k] = all_results[k]
            /\ all_results = <<>> => Logged("no results to export")
            /\ all_results /= <<>> => Logged("exported grades"))
    /\ [][EmptyBatchEnd]_vars

\* a returned batch of two RunResults with its two rows
C24_Witness ==
    /\ outcome = "returned"
    /\ Len(all_results) = 2
    /\ csv_path = "written"
    /\ <<csv_rows[1].user_id, csv_rows[2].user_id>> =
           <<submissions[1].user_id, submissions[2].user_id>>

----------------------------------------------------------------------------
(* C25: configuration errors *)

ConfigurationError == ~assignment_id_ok \/ rubric_items = <<>>

\* C25: when the assignment identifier is not numeric or the assignment has no
\* rubric, the batch call raises to the caller before the anonymization mapping
\* is built and before any submitter is downloaded, materialized, graded or
\* reviewed: there is no RunResult, no failure record, no progress update and
\* no export.
C25_ConfigurationErrorIsFatal ==
    ConfigurationError =>
        /\ pc \in {"start", "done"}
        /\ pc = "done" => outcome = "raised"
        /\ outcome /= "returned"
        /\ anon_map = <<>>
        /\ cur = NoCur /\ rv = NoRv
        /\ all_results = <<>> /\ extraction_failures = <<>>
        /\ progress = <<>>
        /\ csv_path = "none" /\ csv_rows = <<>>

\* a batch with a submitter to grade that raised for lack of a rubric
C25_Witness ==
    /\ rubric_items = <<>>
    /\ submissions /= <<>>
    /\ outcome = "raised"
    /\ Logged("no rubric")

----------------------------------------------------------------------------
(* C26: the order of the stages of one submitter *)

IsPrefix(a, b) == Len(a) <= Len(b) /\ \A k \in DOMAIN a : a[k] = b[k]

\* the order the specification states
StrictOrder == <<"materialize", "grade", "review", "reconcile">>

\* the order of the calls in the loop body: lines 130, 144, 145, 151, 165
LoopOrder == <<"materialize", "grade", "reconcile", "review", "reconcile">>

\* C26 as claimed: for every submitter the stages run strictly in the order
\* materialize, grade, review, reconcile; no result is reconciled before the
\* review of the submitter has returned.
C26_ReconcileOnlyAfterReview == IsPrefix(cur.stages, StrictOrder)

\* C26 as amended: for every submitter the stages run strictly in the order
\* materialize, grade, reconcile, review and, only when the alternative is
\* substituted, reconcile again.  The grader is called only after the
\* materializer returned text; the reviewer only after the grader returned, on
\* the grader's result already reconciled and coerced to integers; the
\* alternative is reconciled only after the review returned.
C26_StagesInLoopOrder ==
    /\ IsPrefix(cur.stages, LoopOrder)
    /\ pc = "grade" => (cur.stages = <<"materialize">> /\ cur.content_text /= <<>>)
    /\ pc = "review" =>
          /\ cur.stages = SubSeq(LoopOrder, 1, 3)
          /\ cur.path /= "none"
          /\ cur.grading_result = CoercePoints(Reconcile(cur.reply))
    /\ pc \in {"rv_upload", "rv_generate", "rv_debug", "rv_parse", "rv_finally"} =>
          (cur.stages = SubSeq(LoopOrder, 1, 4) /\ cur.primary = cur.grading_result)
    /\ Len(cur.stages) = 5 => (rv.exit = "returned" /\ ApplyRevision(cur.verdict))
    /\ JustResolved => (Len(cur.stages) = 5 <=> ApplyRevision(cur.verdict))

\* a submitter whose alternative was substituted: all five calls were made
C26_Witness ==
    /\ JustResolved
    /\ cur.stages = LoopOrder
    /\ LastResult.was_regraded

----------------------------------------------------------------------------
(* C27: the strategies tried on a rich-text attachment *)

\* prepare_submission_for_grading has returned for the current submitter
Materialized == cur.stages /= <<>> /\ cur.exc /= "merge error"

Converted(f) == f.lo_ok \/ f.d2p_ok

CountOf(seq, x) == Len(SelectSeq(seq, LAMBDA t : t = x))

\* C27: for each DOCX attachment the strategies come in a fixed order: the
\* first converter; the second converter only if the first failed; the direct
\* extraction of text from the container only if both converters failed.  A
\* converted attachment is on the merge list and gives no directly extracted
\* text; direct extraction gives text and no page-based document; an
\* attachment on which all three fail is on the skipped list with its reason,
\* and the materializer goes on to the next attachment without raising.
C27_ConversionStrategyOrder ==
    Materialized =>
        LET fs   == cur.file_paths
            docx == {k \in DOMAIN fs : fs[k].ext = "docx"}
            dead == {k \in docx : ~Converted(fs[k]) /\ ~fs[k].docx_text}
        IN  /\ \A k \in docx :
                  /\ convert_docx_to_pdf(fs[k]) = "libreoffice" <=> fs[k].lo_ok
                  /\ convert_docx_to_pdf(fs[k]) = "docx2pdf" <=>
                         (~fs[k].lo_ok /\ fs[k].d2p_ok)
                  /\ DirectDocx(fs[k]) <=> (~Converted(fs[k]) /\ fs[k].docx_text)
                  /\ Converted(fs[k]) => (ToMerge(fs[k]) /\ ~DirectDocx(fs[k]))
                  /\ DirectDocx(fs[k]) => ~ToMerge(fs[k])
            /\ CountOf(cur.content_text, "docx") =
                   Cardinality({k \in docx : ~Converted(fs[k]) /\ fs[k].docx_text})
            /\ cur.merged_exists <=>
                   \E k \in DOMAIN fs :
                       \/ k \in docx /\ Converted(fs[k])
                       \/ fs[k].ext = "pdf" /\ fs[k].exists /\ fs[k].valid_pdf
            /\ \A k \in docx :
                  k \in dead <=>
                      \E j \in DOMAIN cur.skipped :
                          cur.skipped[j] = <<k, SkipReason(fs[k])>>

\* one submitter with three DOCX attachments: the first converted by the second
\* converter, the second read directly, the third skipped; the run goes on to
\* the grader
C27_Witness ==
    /\ pc = "grade"
    /\ cur.file_paths = <<DocxSecond, DocxTextOnly, DocxDead>>
    /\ cur.merged_exists
    /\ cur.content_text = <<"direct", "docx">>
    /\ cur.skipped = <<<<3, "Both PDF conversion and direct text extraction failed">>>>

----------------------------------------------------------------------------
(* C28: text layer first, optical recognition second *)

\* the documents merged into the canonical document of the current submitter
Merged == SelectSeq(cur.file_paths, ToMerge)

HasTextLayer == \E k \in DOMAIN Merged : Merged[k].text_layer

HasOcrText == \E k \in DOMAIN Merged : Merged[k].ocr_text

\* the part of the returned text that comes from the canonical document
PdfPart == SelectSeq(cur.content_text, LAMBDA t : t /= "docx")

\* C28: the text of the canonical document is the text of its text layer
\* whenever that layer holds any non-whitespace text, and then no optical
\* recognition is run, even on a document whose pages would give some; only
\* when the text layer gives nothing is the text the output of the optical
\* recognition, empty when that finds nothing or fails.  The extraction never
\* raises: the only error of the materializer is that of the merge.
C28_OcrOnlyWithoutTextLayer ==
    /\ (Materialized /\ Merged /= <<>>) =>
          /\ HasTextLayer => PdfPart = <<"direct">>
          /\ (~HasTextLayer /\ HasOcrText) => PdfPart = <<"ocr">>
          /\ (~HasTextLayer /\ ~HasOcrText) => PdfPart = <<>>
          /\ CountOf(cur.content_text, "ocr") > 0 <=> (~HasTextLayer /\ HasOcrText)
    /\ (Materialized /\ Merged = <<>>) => PdfPart = <<>>
    /\ cur.exc = "merge error" => \E k \in DOMAIN Merged : ~Merged[k].mergeable

\* a document of page images only: the text comes from optical recognition
C28_Witness ==
    /\ pc = "grade"
    /\ cur.file_paths = <<PdfScan>>
    /\ ~HasTextLayer
    /\ cur.content_text = <<"ocr">>

----------------------------------------------------------------------------
(* C29: a submitter whose text comes from direct DOCX extraction only *)

ConversionError == "could not convert to float"

\* the materializer returned text, none of it from a page-based document
TextOnlyDocx == Materialized /\ cur.content_text /= <<>> /\ Merged = <<>>

\* the iteration of the current submitter is over
IterationOver == pc \in {"loop", "done"}

LastFailure == extraction_failures[Len(extraction_failures)]

----------------------------------------------------------------------------
(* C30: missing submissions graded as zero *)

\* the next submission of the loop has its missing flag set
AtMissing == pc = "loop" /\ i <= total /\ submissions[i].missing

\* one entry of zero points per criterion of the rubric, in rubric order
ZeroEntries(scores) ==
    /\ Len(scores) = Len(rubric_items)
    /\ \A k \in DOMAIN scores :
          scores[k].criterion = rubric_items[k].criterion /\ scores[k].points = 0

\* with the option: the zero result is appended and update_progress is called,
\* without any stage call and without a failure record
ZeroStep ==
    (AtMissing /\ grade_missing_as_zero) =>
        /\ Len(all_results') = Len(all_results) + 1
        /\ SubSeq(all_results', 1, Len(all_results)) = all_results
        /\ LET r == all_results'[Len(all_results')]
           IN  /\ r.user_id = submissions[i].user_id
               /\ r.score = 0
               /\ r.submission_status = "Missing"
               /\ ~r.was_regraded
               /\ ZeroEntries(r.rubric_scores)
        /\ extraction_failures' = extraction_failures
        /\ cur' = cur /\ rv' = rv
        /\ has_progress =>
              \/ progress' = Append(progress, <<i, total>>) /\ i' = i + 1
              \/ outcome' = "raised"
        /\ ~has_progress => (progress' = progress /\ i' = i + 1)

\* without the option: the loop body of every other submitter
NormalStep ==
    (AtMissing /\ ~grade_missing_as_zero) =>
        /\ all_results' = all_results
        /\ cur'.user_id = submissions[i].user_id
        /\ cur'.status = "Missing"
        /\ pc' = IF submissions[i].attachments = <<>> THEN "loop" ELSE "download"

\* C30: with grade_missing_as_zero, every submission whose missing flag is set
\* gets exactly one RunResult with score 0, status Missing, not regraded, and
\* one zero entry per criterion of the rubric; no download, materialization,
\* grading or review is run for it, it is never in the failure list, and
\* update_progress is called after it.  Without the option the same submission
\* goes through the loop body like any other.
C30_MissingGradedAsZero ==
    /\ [][ZeroStep]_vars
    /\ [][NormalStep]_vars
    /\ [](grade_missing_as_zero =>
            \A k \in DOMAIN submissions :
                submissions[k].missing =>
                    /\ FailuresOf(submissions[k].user_id) = {}
                    /\ Cardinality(ResultsOf(submissions[k].user_id)) <= 1
                    /\ (k < i \/ outcome = "returned") =>
                           Cardinality(ResultsOf(submissions[k].user_id)) = 1)

\* a returned batch of two missing submissions, each with its zero result and
\* its progress update, and no stage ever called
C30_Witness ==
    /\ outcome = "returned"
    /\ grade_missing_as_zero /\ has_progress
    /\ Len(all_results) = 2
    /\ \A k \in 1..2 : /\ submissions[k].missing
                       /\ all_results[k].user_id = submissions[k].user_id
                       /\ all_results[k].score = 0
                       /\ ZeroEntries(all_results[k].rubric_scores)
    /\ progress = <<<<0, 2>>, <<1, 2>>, <<2, 2>>>>
    /\ extraction_failures = <<>>
    /\ cur = NoCur /\ rv = NoRv
====
